---- MODULE Spec2Model ----
(***************************************************************************)
(* A model of hallmasterapi.py: the collation of raw per-room booking      *)
(* entries into Booking objects (HallmasterAPI.get_bookings) and the       *)
(* tiered search over titles and lazily fetched descriptions               *)
(* (HallmasterAPI.search, HallmasterAPI.get_description).                  *)
(*                                                                         *)
(* Python strings are modelled as sequences of one-character strings, so   *)
(* that lower(), upper(), strip(), the `in` substring test and the regular *)
(* expression \b\w are computed character by character.                    *)
(***************************************************************************)
EXTENDS Integers, Sequences, FiniteSets

VARIABLES
    op,                    \* the public method that was called
    pc,                    \* position of the control flow
    rooms_info,            \* self.rooms_info: colour -> room name
    raw_bookings,          \* get_bookings: the decoded JSON list
    get_desc,              \* get_bookings: the get_desc argument
    i,                     \* get_bookings: index of the raw entry being read
    collated_entries,      \* get_bookings: insertion-ordered dict, as a sequence of [key, value]
    search_terms,          \* search: the search_terms argument
    bookings,              \* search: the Booking objects returned by get_bookings
    t,                     \* search: index of the current term
    acronym,               \* search: acronym of the current term
    j,                     \* search: index of the current Booking
    confident_matches,     \* search: references (indices into bookings)
    somewhat_sure_matches, \* search: references (indices into bookings)
    result,                \* the value returned to the caller
    fetch_count,           \* history: number of get_description calls per booking id
    appended               \* history: the append calls of search, in the order made

vars == <<op, pc, rooms_info, raw_bookings, get_desc, i, collated_entries,
          search_terms, bookings, t, acronym, j, confident_matches,
          somewhat_sure_matches, result, fetch_count, appended>>

(***************************************************************************)
(* Bounds of the model.                                                    *)
(***************************************************************************)
MaxEntries == 2
MaxTerms == 2
MaxLen == 4

(***************************************************************************)
(* Strings.                                                                *)
(***************************************************************************)
UpperCase == <<"A", "B", "C", "D", "E", "F", "G", "H", "I", "J", "K", "L", "M", "N", "O", "P", "Q", "R", "S", "T", "U", "V", "W", "X", "Y", "Z">>
LowerCase == <<"a", "b", "c", "d", "e", "f", "g", "h", "i", "j", "k", "l", "m", "n", "o", "p", "q", "r", "s", "t", "u", "v", "w", "x", "y", "z">>
DigitChars == <<"0", "1", "2", "3", "4", "5", "6", "7", "8", "9">>

Range(s) == {s[k] : k \in 1..Len(s)}

\* str.lower() and str.upper() on the letters, as tables
LowerTable == [c \in Range(UpperCase) |-> LowerCase[CHOOSE k \in 1..26 : UpperCase[k] = c]]

UpperTable == [c \in Range(LowerCase) |-> UpperCase[CHOOSE k \in 1..26 : LowerCase[k] = c]]

LowerChar(c) == IF c \in DOMAIN LowerTable THEN LowerTable[c] ELSE c

UpperChar(c) == IF c \in DOMAIN UpperTable THEN UpperTable[c] ELSE c

Lower(s) == [k \in 1..Len(s) |-> LowerChar(s[k])]

Upper(s) == [k \in 1..Len(s) |-> UpperChar(s[k])]

\* the regular expression class \w
WordChars == Range(UpperCase) \cup Range(LowerCase) \cup Range(DigitChars) \cup {"_"}

IsWordChar(c) == c \in WordChars

\* Python's `needle in hay` on strings
Contains(hay, needle) ==
    \E k \in 0..(Len(hay) - Len(needle)) : SubSeq(hay, k + 1, k + Len(needle)) = needle

\* str.strip(): leading and trailing whitespace removed
IsSpace(c) == c = " "

Strip(s) ==
    LET keep == {k \in 1..Len(s) : ~IsSpace(s[k])}
    IN  IF keep = {} THEN <<>>
        ELSE SubSeq(s, CHOOSE k \in keep : \A m \in keep : k <= m,
                       CHOOSE k \in keep : \A m \in keep : k >= m)

\* re.findall(r'\b\w', term): the word characters that start a run of word characters
RECURSIVE WordStarts(_, _)
WordStarts(term, k) ==
    IF k > Len(term) THEN <<>>
    ELSE IF IsWordChar(term[k]) /\ (k = 1 \/ ~IsWordChar(term[k - 1]))
         THEN <<term[k]>> \o WordStarts(term, k + 1)
         ELSE WordStarts(term, k + 1)

AcronymNoUpper(term) == WordStarts(term, 1)

AcronymEmpty(term) == <<>>

\* ''.join(re.findall(r'\b\w', term)).upper()
Acronym(term) == Upper(WordStarts(term, 1))

AnnualGeneralMeeting == <<"A", "n", "n", "u", "a", "l", " ", "G", "e", "n", "e", "r", "a", "l", " ", "M", "e", "e", "t", "i", "n", "g">>
Yoga == <<"Y", "o", "g", "a">>
AGM == <<"A", "G", "M">>
PrivateBooking == <<"P", "r", "i", "v", "a", "t", "e", " ", "B", "o", "o", "k", "i", "n", "g">>
ProvisionalBooking == <<"P", "r", "o", "v", "i", "s", "i", "o", "n", "a", "l", " ", "B", "o", "o", "k", "i", "n", "g">>
TermBoard == <<"b", "o", "a", "r", "d">>
TermYoga == <<"y", "o", "g", "a">>
TextBoard == <<"b", "o", "a", "r", "d", " ">>
TextBring == <<" ", "B", "r", "i", "n", "g", " ", "c", "a", "k", "e">>

\* the titles get_bookings leaves out
PlaceholderTitles == {PrivateBooking, ProvisionalBooking}

(***************************************************************************)
(* The remote service.                                                     *)
(***************************************************************************)
\* the registry built by get_rooms_info for a hall with two rooms
Registry == [c \in {"#fff", "#000"} |->
               IF c = "#fff" THEN [id |-> 1, name |-> "Hall A", colour |-> c]
                             ELSE [id |-> 2, name |-> "Hall B", colour |-> c]]

Colours == {"#fff", "#000", "#123"}

Slots == {<<"T1", "T2">>, <<"T3", "T4">>}

\* a ViewBooking page: with or without a Description field
Pages == {[hasDescription |-> FALSE, text |-> <<>>],
          [hasDescription |-> TRUE, text |-> <<>>],
          [hasDescription |-> TRUE, text |-> TextBoard],
          [hasDescription |-> TRUE, text |-> TextBring]}

\* what get_description returns for a page
get_description(page) == IF page.hasDescription THEN Strip(page.text) ELSE <<" ">>

\* the raw entries of the GetBookings answer; the Id of an entry is its position
RawEntry(title, slot, colour) == [title |-> title, start |-> slot[1], end |-> slot[2], color |-> colour]

RawEntries == {RawEntry(ti, sl, co) : ti \in {Yoga, AnnualGeneralMeeting} \cup PlaceholderTitles,
                                       sl \in Slots, co \in Colours}

SearchRawEntries == {RawEntry(ti, <<"T1", "T2">>, "#fff") : ti \in {AnnualGeneralMeeting, Yoga, AGM, PrivateBooking}}
                    \cup {RawEntry(Yoga, <<"T1", "T2">>, "#123")}

WithIds(s) == [k \in 1..Len(s) |-> [Id |-> k, title |-> s[k].title, start |-> s[k].start,
                                    end |-> s[k].end, color |-> s[k].color]]

SeqsUpTo(S, n) == UNION {[1..m -> S] : m \in 0..n}

Terms == {TermBoard, AnnualGeneralMeeting}

\* the alphabet of the terms the acronym is computed for
TermChars == {"a", "B", " ", "-"}

NoResult == [none |-> TRUE]

ZeroCount == [id \in {} |-> 0]

Count(f, id) == IF id \in DOMAIN f THEN f[id] ELSE 0

Bump(f, id) == [x \in DOMAIN f \cup {id} |-> IF x = id THEN Count(f, id) + 1 ELSE f[x]]

(***************************************************************************)
(* Initial states: one per call of a public method.                        *)
(***************************************************************************)
InitCommon ==
    /\ rooms_info = Registry
    /\ i = 1
    /\ collated_entries = <<>>
    /\ bookings = <<>>
    /\ t = 0
    /\ acronym = <<>>
    /\ j = 0
    /\ confident_matches = <<>>
    /\ somewhat_sure_matches = <<>>
    /\ result = NoResult
    /\ fetch_count = ZeroCount
    /\ appended = <<>>

\* api.get_bookings(start_date, end_date, get_desc=...)
Init ==
    /\ InitCommon
    /\ op = "get_bookings"
    /\ pc = "get_bookings"
    /\ raw_bookings \in {WithIds(s) : s \in SeqsUpTo(RawEntries, MaxEntries)}
    /\ get_desc \in BOOLEAN
    /\ search_terms = [type |-> "list", value |-> <<>>]

\* api.search(search_terms, start_date, end_date): a str or a list of str
InitSearch ==
    /\ InitCommon
    /\ op = "search"
    /\ pc = "get_bookings"
    /\ raw_bookings \in {WithIds(s) : s \in SeqsUpTo(SearchRawEntries, MaxEntries)}
    /\ get_desc = FALSE
    /\ search_terms \in {[type |-> "str", value |-> term] : term \in Terms}
                        \cup {[type |-> "list", value |-> l] : l \in SeqsUpTo(Terms, MaxTerms)}

\* api.search(term) for one term, the remote service having no bookings
InitAcronym ==
    /\ InitCommon
    /\ op = "search"
    /\ pc = "get_bookings"
    /\ raw_bookings = <<>>
    /\ get_desc = FALSE
    /\ search_terms \in {[type |-> "str", value |-> term] :
                            term \in SeqsUpTo(TermChars, MaxLen) \cup {AnnualGeneralMeeting, TermYoga}}

(***************************************************************************)
(* get_bookings, lines 91-113.                                             *)
(***************************************************************************)
KeyOf(booking) == <<booking.title, booking.start, booking.end>>

Keys(entries) == {entries[k].key : k \in 1..Len(entries)}

KeyIndex(entries, key) == CHOOSE k \in 1..Len(entries) : entries[k].key = key

Booking(id, title, start, end, rooms, description) ==
    [id |-> id, title |-> title, start |-> start, end |-> end, rooms |-> rooms,
     description |-> description]

Values(entries) == [k \in 1..Len(entries) |-> entries[k].value]

SkippedPrivateOnly(booking, info) == booking.title = PrivateBooking

SkippedOrUnknown(booking, info) ==
    booking.title \in PlaceholderTitles \/ booking.color \notin DOMAIN info

\* line 93: the entries that are left out
Skipped(booking, info) == booking.title \in PlaceholderTitles

\* line 93 false: the entry is left out
GetBookingsSkip ==
    /\ pc = "get_bookings"
    /\ i <= Len(raw_bookings)
    /\ Skipped(raw_bookings[i], rooms_info)
    /\ i' = i + 1
    /\ UNCHANGED <<op, pc, rooms_info, raw_bookings, get_desc, collated_entries,
                   search_terms, bookings, t, acronym, j, confident_matches,
                   somewhat_sure_matches, result, fetch_count, appended>>

\* line 95 raises KeyError: the exception leaves get_bookings (and search)
GetBookingsLookupError ==
    /\ pc = "get_bookings"
    /\ i <= Len(raw_bookings)
    /\ ~Skipped(raw_bookings[i], rooms_info)
    /\ raw_bookings[i].color \notin DOMAIN rooms_info
    /\ pc' = "KeyError"
    /\ UNCHANGED <<op, rooms_info, raw_bookings, get_desc, i, collated_entries,
                   search_terms, bookings, t, acronym, j, confident_matches,
                   somewhat_sure_matches, result, fetch_count, appended>>

AddAlways(entries, key, value, room) == Append(entries, [key |-> key, value |-> value])

CollatePrepend(entries, key, value, room) ==
    IF key \in Keys(entries)
    THEN LET k == KeyIndex(entries, key)
         IN  [entries EXCEPT ![k].value.rooms = <<room>> \o @]
    ELSE Append(entries, [key |-> key, value |-> value])

\* lines 108-111
Collate(entries, key, value, room) ==
    IF key \in Keys(entries)
    THEN LET k == KeyIndex(entries, key)
         IN  [entries EXCEPT ![k].value.rooms = Append(@, room)]
    ELSE Append(entries, [key |-> key, value |-> value])

\* lines 94-111
GetBookingsCollate ==
    /\ pc = "get_bookings"
    /\ i <= Len(raw_bookings)
    /\ ~Skipped(raw_bookings[i], rooms_info)
    /\ raw_bookings[i].color \in DOMAIN rooms_info
    /\ LET booking == raw_bookings[i]
           key == KeyOf(booking)
           room == rooms_info[booking.color].name
       IN  \E page \in IF get_desc THEN Pages ELSE {[hasDescription |-> FALSE, text |-> <<>>]} :
             LET value == Booking(booking.Id, booking.title, booking.start, booking.end, <<room>>,
                                  IF get_desc THEN get_description(page) ELSE <<>>)
             IN  /\ collated_entries' = Collate(collated_entries, key, value, room)
                 /\ fetch_count' = IF get_desc THEN Bump(fetch_count, value.id) ELSE fetch_count
    /\ i' = i + 1
    /\ UNCHANGED <<op, pc, rooms_info, raw_bookings, get_desc, search_terms, bookings, t,
                   acronym, j, confident_matches, somewhat_sure_matches, result, appended>>

\* line 113, and in search line 116: the list goes to the caller, the frame is dropped
GetBookingsReturn ==
    /\ pc = "get_bookings"
    /\ i > Len(raw_bookings)
    /\ IF op = "search"
       THEN /\ bookings' = Values(collated_entries)
            /\ pc' = "search"
            /\ raw_bookings' = <<>>
            /\ collated_entries' = <<>>
            /\ i' = 1
            /\ UNCHANGED result
       ELSE /\ result' = Values(collated_entries)
            /\ pc' = "returned"
            /\ UNCHANGED <<bookings, raw_bookings, collated_entries, i>>
    /\ UNCHANGED <<op, rooms_info, get_desc, search_terms, t, acronym, j,
                   confident_matches, somewhat_sure_matches, fetch_count, appended>>

Next ==
    \/ GetBookingsSkip
    \/ GetBookingsLookupError
    \/ GetBookingsCollate
    \/ GetBookingsReturn

Spec == Init /\ [][Next]_vars

(***************************************************************************)
(* search, lines 115-152.                                                  *)
(***************************************************************************)
\* lines 117-121
SearchBegin ==
    /\ pc = "search"
    /\ search_terms' = IF search_terms.type = "str"
                       THEN [type |-> "list", value |-> <<search_terms.value>>]
                       ELSE search_terms
    /\ confident_matches' = <<>>
    /\ somewhat_sure_matches' = <<>>
    /\ t' = 1
    /\ pc' = "search_term"
    /\ UNCHANGED <<op, rooms_info, raw_bookings, get_desc, i, collated_entries, bookings,
                   acronym, j, result, fetch_count, appended>>

\* lines 123-125: the next term and its acronym
SearchTerm ==
    /\ pc = "search_term"
    /\ t <= Len(search_terms.value)
    /\ acronym' = Acronym(search_terms.value[t])
    /\ j' = 1
    /\ pc' = "search_item"
    /\ UNCHANGED <<op, rooms_info, raw_bookings, get_desc, i, collated_entries, search_terms,
                   bookings, t, confident_matches, somewhat_sure_matches, result,
                   fetch_count, appended>>

\* line 127: the Bookings are exhausted for this term
SearchTermDone ==
    /\ pc = "search_item"
    /\ j > Len(bookings)
    /\ t' = t + 1
    /\ j' = 0
    /\ pc' = "search_term"
    /\ UNCHANGED <<op, rooms_info, raw_bookings, get_desc, i, collated_entries, search_terms,
                   bookings, acronym, confident_matches, somewhat_sure_matches, result,
                   fetch_count, appended>>

Tag(tier) == [term |-> t, tier |-> tier, item |-> j]

\* lines 131-133: the term is in the title
SearchTitleMatch ==
    /\ pc = "search_item"
    /\ j <= Len(bookings)
    /\ Contains(Lower(bookings[j].title), Lower(search_terms.value[t]))
    /\ \E page \in Pages :
         bookings' = [bookings EXCEPT ![j].description = get_description(page)]
    /\ fetch_count' = Bump(fetch_count, bookings[j].id)
    /\ confident_matches' = Append(confident_matches, j)
    /\ appended' = Append(appended, Tag("confident"))
    /\ j' = j + 1
    /\ UNCHANGED <<op, pc, rooms_info, raw_bookings, get_desc, i, collated_entries,
                   search_terms, t, acronym, somewhat_sure_matches, result>>

\* line 136: the description has to be fetched
NeedsFetch(item) == item.description = <<>>

\* lines 144-150: which list the acronym puts the item on, and the break
AcronymTierNoBreak(title, description, acr) == "none"

AcronymTier(title, description, acr) ==
    IF Contains(Lower(title), Lower(acr)) THEN "confident"
    ELSE IF Contains(Lower(description), Lower(acr)) THEN "possible"
    ELSE "none"

\* lines 134-150: the term is not in the title
SearchDescription ==
    /\ pc = "search_item"
    /\ j <= Len(bookings)
    /\ ~Contains(Lower(bookings[j].title), Lower(search_terms.value[t]))
    /\ \E page \in IF NeedsFetch(bookings[j]) THEN Pages ELSE {[hasDescription |-> FALSE, text |-> <<>>]} :
         LET fetch == NeedsFetch(bookings[j])
             description == IF fetch THEN get_description(page) ELSE bookings[j].description
             term == search_terms.value[t]
             inDescription == Contains(Lower(description), Lower(term))
             tier == AcronymTier(bookings[j].title, description, acronym)
             first == IF inDescription THEN <<Tag("possible")>> ELSE <<>>
             second == IF tier = "none" THEN <<>> ELSE <<Tag(tier)>>
         IN  /\ bookings' = [bookings EXCEPT ![j].description = description]
             /\ fetch_count' = IF fetch THEN Bump(fetch_count, bookings[j].id) ELSE fetch_count
             /\ somewhat_sure_matches' =
                    somewhat_sure_matches \o (IF inDescription THEN <<j>> ELSE <<>>)
                                          \o (IF tier = "possible" THEN <<j>> ELSE <<>>)
             /\ confident_matches' =
                    confident_matches \o (IF tier = "confident" THEN <<j>> ELSE <<>>)
             /\ appended' = appended \o first \o second
             /\ IF tier = "none"
                THEN /\ j' = j + 1
                     /\ UNCHANGED <<pc, t>>
                ELSE /\ j' = 0
                     /\ t' = t + 1
                     /\ pc' = "search_term"
    /\ UNCHANGED <<op, rooms_info, raw_bookings, get_desc, i, collated_entries,
                   search_terms, acronym, result>>

Deref(refs) == [k \in 1..Len(refs) |-> bookings[refs[k]]]

PossibleFirst(confident, possible) == Deref(possible \o confident)

\* line 152
SearchResult(confident, possible) == Deref(confident \o possible)

SearchReturn ==
    /\ pc = "search_term"
    /\ t > Len(search_terms.value)
    /\ result' = SearchResult(confident_matches, somewhat_sure_matches)
    /\ pc' = "returned"
    /\ UNCHANGED <<op, rooms_info, raw_bookings, get_desc, i, collated_entries, search_terms,
                   bookings, t, acronym, j, confident_matches, somewhat_sure_matches,
                   fetch_count, appended>>

NextSearch ==
    \/ GetBookingsSkip
    \/ GetBookingsLookupError
    \/ GetBookingsCollate
    \/ GetBookingsReturn
    \/ SearchBegin
    \/ SearchTerm
    \/ SearchTermDone
    \/ SearchTitleMatch
    \/ SearchDescription
    \/ SearchReturn

SpecSearch == InitSearch /\ [][NextSearch]_vars

\* the steps of a search that finds no bookings
NextAcronym ==
    \/ GetBookingsReturn
    \/ SearchBegin
    \/ SearchTerm
    \/ SearchTermDone
    \/ SearchReturn

SpecAcronym == InitAcronym /\ [][NextAcronym]_vars

(***************************************************************************)
(* Properties of get_bookings, checked under Spec.                         *)
(***************************************************************************)
Returned == pc = "returned"

Indices(s) == 1..Len(s)

\* C1: the list returned by get_bookings never holds two Bookings with equal
\* (title, start, end).
C1_UniqueKeys ==
    (Returned /\ op = "get_bookings") =>
        \A a, b \in Indices(result) :
            (/\ result[a].title = result[b].title
             /\ result[a].start = result[b].start
             /\ result[a].end = result[b].end) => a = b

\* two raw entries with one key were merged into one Booking
C1_Witness ==
    /\ Returned /\ op = "get_bookings"
    /\ Len(raw_bookings) = 2
    /\ Len(result) = 1
    /\ Len(result[1].rooms) = 2

IsPlaceholder(title) == title = PrivateBooking \/ title = ProvisionalBooking

RECURSIVE TotalRooms(_)
TotalRooms(list) ==
    IF list = <<>> THEN 0 ELSE Len(Head(list).rooms) + TotalRooms(Tail(list))

\* C2: no Booking returned by get_bookings is titled "Private Booking" or
\* "Provisional Booking", and the raw entries with such a title add no room to
\* any Booking: the rooms of the result are as many as the other raw entries.
C2_NoPlaceholders ==
    (Returned /\ op = "get_bookings") =>
        /\ \A k \in Indices(result) : ~IsPlaceholder(result[k].title)
        /\ TotalRooms(result) =
               Cardinality({k \in Indices(raw_bookings) : ~IsPlaceholder(raw_bookings[k].title)})

\* a placeholder entry and a real entry were read, one Booking with one room came out
C2_Witness ==
    /\ Returned /\ op = "get_bookings"
    /\ Len(raw_bookings) = 2
    /\ raw_bookings[1].title = ProvisionalBooking
    /\ Len(result) = 1
    /\ Len(result[1].rooms) = 1

RoomNameOf(colour) == IF colour = "#fff" THEN "Hall A" ELSE "Hall B"

RECURSIVE RoomsOfKey(_, _, _, _)
RoomsOfKey(raw, title, start, end) ==
    IF raw = <<>> THEN <<>>
    ELSE LET e == Head(raw)
             rest == RoomsOfKey(Tail(raw), title, start, end)
         IN  IF ~IsPlaceholder(e.title) /\ e.title = title /\ e.start = start /\ e.end = end
             THEN <<RoomNameOf(e.color)>> \o rest
             ELSE rest

\* C3: the rooms of each collated Booking are the registry names of the
\* non-placeholder raw entries with the Booking's (title, start, end), in the
\* order of the source; two entries with colours C1 then C2 give
\* [name(C1), name(C2)].
C3_RoomsInSourceOrder ==
    (Returned /\ op = "get_bookings") =>
        \A k \in Indices(result) :
            result[k].rooms =
                RoomsOfKey(raw_bookings, result[k].title, result[k].start, result[k].end)

\* the scenario of the specification: "#000" then "#fff" gives Hall B, Hall A
C3_Witness ==
    /\ Returned /\ op = "get_bookings"
    /\ Len(result) = 1
    /\ result[1].rooms = <<"Hall B", "Hall A">>
    /\ raw_bookings[1].color = "#000"
    /\ raw_bookings[2].color = "#fff"

KnownColour(colour) == colour \in {"#fff", "#000"}

\* C7 as stated: whenever some raw entry has a colour the registry lacks,
\* get_bookings does not return a list.
C7_AnyUnknownColourFails ==
    (Returned /\ op = "get_bookings") =>
        \A k \in Indices(raw_bookings) : KnownColour(raw_bookings[k].color)

\* C7, amended: whenever some raw entry whose title is not a placeholder has a
\* colour the registry lacks, get_bookings does not return a list: the loop
\* never passes such an entry, the call ends in the lookup error at the first
\* of them, and no list (not even a partial one) is returned.
C7_UnknownColourFails ==
    op = "get_bookings" =>
        /\ Returned =>
               \A k \in Indices(raw_bookings) :
                   IsPlaceholder(raw_bookings[k].title) \/ KnownColour(raw_bookings[k].color)
        /\ pc = "get_bookings" =>
               \A k \in 1..(i - 1) :
                   IsPlaceholder(raw_bookings[k].title) \/ KnownColour(raw_bookings[k].color)
        /\ pc = "KeyError" =>
               /\ result = NoResult
               /\ ~IsPlaceholder(raw_bookings[i].title)
               /\ ~KnownColour(raw_bookings[i].color)
               /\ \A k \in 1..(i - 1) :
                      IsPlaceholder(raw_bookings[k].title) \/ KnownColour(raw_bookings[k].color)

\* the lookup fails at the second entry, after a Booking was collated
C7_Witness ==
    /\ op = "get_bookings"
    /\ pc = "KeyError"
    /\ i = 2
    /\ Len(collated_entries) = 1
    /\ result = NoResult

(***************************************************************************)
(* Properties of search, checked under SpecSearch.                         *)
(***************************************************************************)
RECURSIVE ItemsOfTier(_, _)
ItemsOfTier(log, tier) ==
    IF log = <<>> THEN <<>>
    ELSE IF Head(log).tier = tier
         THEN <<Head(log).item>> \o ItemsOfTier(Tail(log), tier)
         ELSE ItemsOfTier(Tail(log), tier)

\* C4: the list returned by search is the Bookings appended as confident
\* matches, in the order they were found, followed by the Bookings appended as
\* possible matches, in the order they were found: no possible match stands
\* before a confident one.
C4_ConfidentFirst ==
    (Returned /\ op = "search") =>
        LET conf == ItemsOfTier(appended, "confident")
            poss == ItemsOfTier(appended, "possible")
        IN  /\ Len(result) = Len(conf) + Len(poss)
            /\ \A p \in Indices(result) :
                   result[p] = IF p <= Len(conf) THEN bookings[conf[p]]
                               ELSE bookings[poss[p - Len(conf)]]

\* a possible match was found before a confident one
C4_Witness ==
    /\ Returned /\ op = "search"
    /\ Len(appended) >= 2
    /\ appended[1].tier = "possible"
    /\ appended[Len(appended)].tier = "confident"

\* C5: within one search call get_description is called at most once per
\* booking id.
C5_FetchedAtMostOnce ==
    op = "search" => \A id \in DOMAIN fetch_count : fetch_count[id] <= 1

Letter_b == <<"b">>

InResult(k) == \E p \in Indices(result) : result[p] = bookings[k]

BoardSearchReturned ==
    /\ Returned /\ op = "search"
    /\ search_terms.value = <<TermBoard>>

NoAGMInside(description) == ~Contains(Lower(description), Lower(AGM))

\* C6 as stated: after search(["board"]) a Booking titled "Annual General
\* Meeting" whose description has no "AGM" is in the result only if "board"
\* occurs in its description.
C6_OnlyIfBoardInDescription ==
    BoardSearchReturned =>
        \A k \in Indices(bookings) :
            (/\ bookings[k].title = AnnualGeneralMeeting
             /\ NoAGMInside(bookings[k].description)
             /\ InResult(k)) => Contains(Lower(bookings[k].description), TermBoard)

\* C6, amended: after search(["board"]) a Booking titled "Annual General
\* Meeting" whose description has no "AGM" is in the result only if the letter
\* "b", the acronym of "board", occurs (in either case) in its description;
\* for every description without that letter the Booking is absent.
C6_OnlyIfAcronymInDescription ==
    BoardSearchReturned =>
        \A k \in Indices(bookings) :
            (/\ bookings[k].title = AnnualGeneralMeeting
             /\ NoAGMInside(bookings[k].description)
             /\ InResult(k)) => Contains(Lower(bookings[k].description), Letter_b)

\* the Booking is returned for a description with a "B" but without "board"
C6_Witness ==
    /\ BoardSearchReturned
    /\ \E k \in Indices(bookings) :
           /\ bookings[k].title = AnnualGeneralMeeting
           /\ InResult(k)
           /\ Contains(Lower(bookings[k].description), Letter_b)
           /\ ~Contains(Lower(bookings[k].description), TermBoard)

TermInTitle(k) == Contains(Lower(bookings[k].title), Lower(search_terms.value[t]))

\* C9: for each term the Bookings are evaluated one after the other from the
\* first; a Booking whose title has the term goes on to the next Booking; a
\* Booking whose title lacks the term and whose title or description has the
\* term's acronym ends the scan for the term, so that no later Booking is
\* evaluated or fetched for it; a step fetches for no other Booking than the
\* one evaluated; the next term starts again at the first Booking.
C9_StopAtAcronymMatch ==
    [][/\ (pc = "search_term" /\ pc' = "search_item") => (j' = 1 /\ t' = t)
       /\ t' >= t
       /\ (pc = "search_item" /\ j <= Len(bookings)) =>
              LET acr == Lower(Acronym(search_terms.value[t]))
                  hit == \/ Contains(Lower(bookings[j].title), acr)
                         \/ Contains(Lower(bookings'[j].description), acr)
              IN  /\ \A k \in Indices(bookings) :
                         k # j => /\ bookings'[k] = bookings[k]
                                  /\ Count(fetch_count', bookings[k].id) =
                                         Count(fetch_count, bookings[k].id)
                  /\ \A a \in (Len(appended) + 1)..Len(appended') :
                         appended'[a].item = j /\ appended'[a].term = t
                  /\ IF ~TermInTitle(j) /\ hit
                     THEN pc' = "search_term" /\ t' = t + 1
                     ELSE pc' = "search_item" /\ t' = t /\ j' = j + 1]_vars

\* the scan of a term ended at the first of two Bookings: the second one was
\* never evaluated, its description never fetched
C9_Witness ==
    /\ Returned /\ op = "search"
    /\ Len(search_terms.value) = 1
    /\ Len(bookings) = 2
    /\ Len(result) >= 1
    /\ appended[1].item = 1
    /\ ~Contains(Lower(bookings[1].title), Lower(search_terms.value[1]))
    /\ bookings[2].description = <<>>
    /\ Count(fetch_count, bookings[2].id) = 0

\* C10: while one term is processed each Booking is appended to the result
\* lists at most once.
C10_AppendedOncePerTerm ==
    op = "search" =>
        \A a, b \in Indices(appended) :
            (appended[a].term = appended[b].term /\ appended[a].item = appended[b].item)
                => a = b

(***************************************************************************)
(* Properties of the acronym, checked under SpecAcronym.                   *)
(***************************************************************************)
RECURSIVE SplitWords(_, _)
\* the words of s between spaces; cur is the word being read
SplitWords(s, cur) ==
    IF s = <<>> THEN (IF cur = <<>> THEN <<>> ELSE <<cur>>)
    ELSE IF Head(s) = " "
         THEN (IF cur = <<>> THEN <<>> ELSE <<cur>>) \o SplitWords(Tail(s), <<>>)
         ELSE SplitWords(Tail(s), Append(cur, Head(s)))

AsciiWordChars ==
    {"a", "b", "c", "d", "e", "f", "g", "h", "i", "j", "k", "l", "m", "n", "o", "p", "q",
     "r", "s", "t", "u", "v", "w", "x", "y", "z", "A", "B", "C", "D", "E", "F", "G", "H",
     "I", "J", "K", "L", "M", "N", "O", "P", "Q", "R", "S", "T", "U", "V", "W", "X", "Y",
     "Z", "0", "1", "2", "3", "4", "5", "6", "7", "8", "9", "_"}

PlainWords(words) == \A w \in Indices(words) : \A k \in Indices(words[w]) : words[w][k] \in AsciiWordChars

Initials(words) == [w \in Indices(words) |-> UpperChar(words[w][1])]

AcronymComputed == op = "search" /\ pc = "search_item" /\ bookings = <<>>

\* C8 as stated: the acronym of a term has one character per space-separated
\* word, the uppercased first character of the word.
C8_OneInitialPerWord ==
    AcronymComputed => acronym = Initials(SplitWords(search_terms.value[t], <<>>))

\* C8, amended: Acronym("Annual General Meeting") = "AGM", Acronym("yoga") =
\* "Y", and for every term whose space-separated words consist of letters,
\* digits and underscores only the acronym is the uppercased first character
\* of each word, in order: one character per word.
C8_OneInitialPerPlainWord ==
    AcronymComputed =>
        LET term == search_terms.value[t]
            words == SplitWords(term, <<>>)
        IN  /\ term = AnnualGeneralMeeting => acronym = <<"A", "G", "M">>
            /\ term = TermYoga => acronym = <<"Y">>
            /\ PlainWords(words) =>
                   /\ Len(acronym) = Len(words)
                   /\ acronym = Initials(words)

\* a term of two plain words, the first in lower case
C8_Witness ==
    /\ AcronymComputed
    /\ search_terms.value[t] = <<"a", "B", " ", "B">>
    /\ acronym = <<"A", "B">>

====
